---- MODULE Spec2Model ----
(***************************************************************************)
(* Model of the shipment-document agent: the three extractors              *)
(* (extract_bl_number_from_pdf, extract_bl_number_llm_tool,                *)
(* extract_shipping_details_llm_tool) and the three variants of main().    *)
(*                                                                         *)
(* A Python str is a sequence of characters; a character is a string of    *)
(* length one, except U+00DF (LATIN SMALL LETTER SHARP S), which is        *)
(* written by its code point name and stands for the characters whose      *)
(* str.upper() is longer than one character.                               *)
(***************************************************************************)
EXTENDS Naturals, Integers, Sequences, FiniteSets, TLC

VARIABLES
    pc,                  \* position of the running function / of main()
    pdf_data,            \* the attachment handed to the extractor under study
    llm_reply,           \* what client.models.generate_content() does when called
    result,              \* what the extractor under study returned (or raised)
    model_calls,         \* prompts sent to the language model so far
    variant,             \* which main(): "pattern" | "llm" | "structured"
    yielded,             \* attachments yielded so far, in order
    all_files_to_upload, \* main(): list of collected attachments
    latest_bl_number,    \* main(): None or the identifier kept for naming
    container_number,    \* main() (structured): None or the container kept
    sheet_data,          \* rows get_sheet_data() returns
    calls,               \* calls issued to Drive / Sheets, in order
    log                  \* console messages that matter to the claims

vars == <<pc, pdf_data, llm_reply, result, model_calls, variant, yielded,
          all_files_to_upload, latest_bl_number, container_number, sheet_data,
          calls, log>>

----------------------------------------------------------------------------
(* Characters and Python str methods *)

SharpS == "U+00DF"

LowerLetters == <<"a","b","c","d","e","f","g","h","i","j","k","l","m",
                  "n","o","p","q","r","s","t","u","v","w","x","y","z">>

UpperLetters == <<"A","B","C","D","E","F","G","H","I","J","K","L","M",
                  "N","O","P","Q","R","S","T","U","V","W","X","Y","Z">>

DigitChars == {"0","1","2","3","4","5","6","7","8","9"}

Range(s) == {s[i] : i \in 1..Len(s)}

\* string.ascii_letters + string.digits
valid_chars == Range(LowerLetters) \cup Range(UpperLetters) \cup DigitChars

\* characters str.strip() removes
Whitespace == {" ", "\n", "\r", "\t"}

\* str.upper() of one character: a sequence, since U+00DF becomes "SS"
UpperChar(c) ==
    IF c = SharpS THEN <<"S", "S">>
    ELSE IF \E i \in 1..26 : LowerLetters[i] = c
         THEN <<UpperLetters[CHOOSE i \in 1..26 : LowerLetters[i] = c]>>
         ELSE <<c>>

RECURSIVE Upper(_)
\* str.upper()
Upper(s) == IF s = <<>> THEN <<>> ELSE UpperChar(Head(s)) \o Upper(Tail(s))

\* s[i:] of Python with i 0-based
SliceFrom(s, i) == IF i >= Len(s) THEN <<>> ELSE SubSeq(s, i + 1, Len(s))

\* s[:n] of Python
SliceTo(s, n) == IF n >= Len(s) THEN s ELSE SubSeq(s, 1, n)

\* sub occurs in s at the 0-based offset i
OccursAt(sub, s, i) ==
    /\ i + Len(sub) <= Len(s)
    /\ \A k \in 1..Len(sub) : s[i + k] = sub[k]

\* Python "sub in s"
Contains(sub, s) == \E i \in 0..Len(s) : OccursAt(sub, s, i)

\* str.find(sub): the lowest 0-based offset, only used when sub is in s
Find(sub, s) ==
    CHOOSE i \in 0..Len(s) :
        /\ OccursAt(sub, s, i)
        /\ \A j \in 0..(i - 1) : ~OccursAt(sub, s, j)

RECURSIVE LStrip(_)
LStrip(s) == IF s # <<>> /\ Head(s) \in Whitespace THEN LStrip(Tail(s)) ELSE s

RECURSIVE RStrip(_)
RStrip(s) ==
    IF s # <<>> /\ s[Len(s)] \in Whitespace
    THEN RStrip(SubSeq(s, 1, Len(s) - 1))
    ELSE s

\* str.strip()
Strip(s) == RStrip(LStrip(s))

\* str.replace(old, new) for a one-character old
ReplaceChar(s, old, new) == [i \in 1..Len(s) |-> IF s[i] = old THEN new ELSE s[i]]

RECURSIVE ReplaceDoubleSpace(_)
\* str.replace('  ', ' '): one left-to-right pass over non-overlapping matches
ReplaceDoubleSpace(s) ==
    IF Len(s) < 2 THEN s
    ELSE IF s[1] = " " /\ s[2] = " "
         THEN <<" ">> \o ReplaceDoubleSpace(SubSeq(s, 3, Len(s)))
         ELSE <<s[1]>> \o ReplaceDoubleSpace(Tail(s))

----------------------------------------------------------------------------
(* Text extraction shared by the three extractors *)

\* page.extract_text().replace('\n', ' ').replace('\r', ' ').replace('  ', ' ')
NormalizePage(t) == ReplaceDoubleSpace(ReplaceChar(ReplaceChar(t, "\n", " "), "\r", " "))

RECURSIVE FullText(_)
\* the loop "for page in reader.pages: full_text += ..."
FullText(pages) ==
    IF pages = <<>> THEN <<>>
    ELSE NormalizePage(Head(pages)) \o FullText(Tail(pages))

\* the test "not full_text" in its place: only the empty str passes
IsBlank_EmptyOnly(s) == s = <<>>

\* a str holding only whitespace (or nothing): "not full_text.strip()"
IsBlank(s) == Strip(s) = <<>>

----------------------------------------------------------------------------
(* The identifiers *)

BL_Number_Not_Found ==
    <<"B","L","_","N","u","m","b","e","r","_","N","o","t","_","F","o","u","n","d">>

BLPrefix == <<"B","L","-">>

NOT_FOUND == <<"N","O","T","_","F","O","U","N","D">>

----------------------------------------------------------------------------
(* Pattern-based finder: main.py *)

keywords == <<
    <<"B","/","L",":">>,
    <<"B","L",":">>,
    <<"B","/","L"," ","N","o",".">>,
    <<"B","i","l","l"," ","o","f"," ","L","a","d","i","n","g"," ",
      "N","u","m","b","e","r",":">>,
    <<"S","h","i","p","m","e","n","t"," ","N","o",".">> >>

RECURSIVE BlockFrom(_, _)
\* the loop of _get_alphanumeric_block over the characters s, bl_id so far
BlockFrom(s, bl_id) ==
    IF s = <<>> THEN bl_id
    ELSE IF Head(s) \in valid_chars THEN BlockFrom(Tail(s), Append(bl_id, Head(s)))
    ELSE IF bl_id # <<>> THEN bl_id
    ELSE BlockFrom(Tail(s), bl_id)

_get_alphanumeric_block(text, start_index) == BlockFrom(SliceFrom(text, start_index), <<>>)

\* found_id for one keyword that occurs in the upper-cased text
FoundId(full_text, keyword) ==
    LET full_text_upper == Upper(full_text)
        keyword_upper == Upper(keyword)
        start_index == Find(keyword_upper, full_text_upper)
        search_start == start_index + Len(keyword_upper)
    IN  Upper(_get_alphanumeric_block(full_text, search_start))

RECURSIVE KeywordLoop_FirstAnchorOnly(_, _)
\* the loop returning the sentinel as soon as an occurring anchor has an empty run
KeywordLoop_FirstAnchorOnly(full_text, k) ==
    IF k > Len(keywords) THEN BL_Number_Not_Found
    ELSE IF Contains(Upper(keywords[k]), Upper(full_text))
         THEN IF FoundId(full_text, keywords[k]) # <<>>
              THEN BLPrefix \o FoundId(full_text, keywords[k])
              ELSE BL_Number_Not_Found
         ELSE KeywordLoop_FirstAnchorOnly(full_text, k + 1)

RECURSIVE KeywordLoop(_, _)
\* "for keyword in keywords:" from the k-th keyword on
KeywordLoop(full_text, k) ==
    IF k > Len(keywords) THEN BL_Number_Not_Found
    ELSE IF Contains(Upper(keywords[k]), Upper(full_text))
            /\ FoundId(full_text, keywords[k]) # <<>>
         THEN BLPrefix \o FoundId(full_text, keywords[k])
         ELSE KeywordLoop(full_text, k + 1)

\* the finder falling back on the first run of the text when no anchor decides
FindBL_FirstRunFallback(full_text) ==
    IF KeywordLoop(full_text, 1) = BL_Number_Not_Found
           /\ _get_alphanumeric_block(full_text, 0) # <<>>
    THEN BLPrefix \o Upper(_get_alphanumeric_block(full_text, 0))
    ELSE KeywordLoop(full_text, 1)

\* the finder on the text of a readable PDF
FindBL(full_text) == KeywordLoop(full_text, 1)

Returned(v) == [raised |-> FALSE, value |-> v]

\* no call has ended yet
Pending == [raised |-> FALSE, value |-> <<"pending">>]

Raised == [raised |-> TRUE, value |-> <<>>]

\* PdfReader(pdf_file) raises on bytes that are no readable PDF
extract_bl_number_from_pdf(pdf) ==
    IF ~pdf.readable THEN Raised
    ELSE Returned(FindBL(FullText(pdf.pages)))

----------------------------------------------------------------------------
(* Model-assisted identifier extractor: main_1.py *)

MaxPromptChars == 3000

MinRunLen == 8

\* the class [A-Z0-9] of the clean-up regular expression
IsRunChar(c) == c \in Range(UpperLetters) \cup DigitChars

\* s[i..j] (1-based) holds only characters of [A-Z0-9]
AllRunChars(s, i, j) == \A k \in i..j : IsRunChar(s[k])

\* re.search(r'([A-Z0-9]{8,})', s) finds something
HasRun(s) == \E i \in 1..Len(s) : i + MinRunLen - 1 <= Len(s) /\ AllRunChars(s, i, i + MinRunLen - 1)

\* the search with a quantifier that stops at eight characters
FirstRun_EightOnly(s) ==
    LET i == CHOOSE a \in 1..Len(s) :
                 /\ a + MinRunLen - 1 <= Len(s)
                 /\ AllRunChars(s, a, a + MinRunLen - 1)
                 /\ \A b \in 1..(a - 1) :
                        ~(b + MinRunLen - 1 <= Len(s) /\ AllRunChars(s, b, b + MinRunLen - 1))
    IN  SubSeq(s, i, i + MinRunLen - 1)

\* group(1) of that search: leftmost start, greedy to the end of the run
FirstRun(s) ==
    LET i == CHOOSE a \in 1..Len(s) :
                 /\ a + MinRunLen - 1 <= Len(s)
                 /\ AllRunChars(s, a, a + MinRunLen - 1)
                 /\ \A b \in 1..(a - 1) :
                        ~(b + MinRunLen - 1 <= Len(s) /\ AllRunChars(s, b, b + MinRunLen - 1))
        j == CHOOSE e \in i..Len(s) :
                 /\ AllRunChars(s, i, e)
                 /\ (e = Len(s) \/ ~IsRunChar(s[e + 1]))
    IN  SubSeq(s, i, j)

NotFoundPhrases == {
    <<"B","L","_","N","U","M","B","E","R","_","N","O","T","_","F","O","U","N","D">>,
    <<"B","L"," ","N","U","M","B","E","R"," ","N","O","T"," ","F","O","U","N","D">> }

\* lines 135-148: what is done with response.text
SanitizeResponse(text) ==
    LET extracted_bl == Upper(Strip(text))
    IN  IF extracted_bl \in NotFoundPhrases THEN BL_Number_Not_Found
        ELSE IF HasRun(extracted_bl) THEN BLPrefix \o FirstRun(extracted_bl)
        ELSE BLPrefix \o extracted_bl

\* the document text placed in the prompt: full_text[:3000]
PromptText(full_text) == SliceTo(full_text, MaxPromptChars)

\* the extractors reach client.models.generate_content() on this attachment
CallsModel(pdf) == pdf.readable /\ ~IsBlank(FullText(pdf.pages))

extract_bl_number_llm_tool(pdf, reply) ==
    IF ~pdf.readable THEN Raised
    ELSE IF IsBlank(FullText(pdf.pages)) THEN Returned(BL_Number_Not_Found)
    ELSE IF reply.kind = "error" THEN Returned(BL_Number_Not_Found)
    ELSE Returned(SanitizeResponse(reply.text))

----------------------------------------------------------------------------
(* Model-assisted structured extractor: main_2.py *)

Quote == "\""

\* characters json.loads skips between tokens
JsonWs == {" ", "\n", "\r", "\t"}

\* control characters json.loads (strict) refuses inside a string
JsonControl == {"\n", "\r", "\t"}

KeyBL == <<"B","L","_","N","u","m","b","e","r">>

KeyCN == <<"C","o","n","t","a","i","n","e","r","_","N","u","m","b","e","r">>

\* re.search(r'\{.*\}', llm_output, re.DOTALL) finds something: a '}' after the first '{'
HasJsonSpan(s) ==
    \E a \in 1..Len(s) : s[a] = "{" /\ \E b \in (a + 1)..Len(s) : s[b] = "}"

\* the span of the pattern \{.*?\}: from the first '{' to the first '}' after it
JsonSpan_NonGreedy(s) ==
    LET a == CHOOSE i \in 1..Len(s) : s[i] = "{" /\ \A j \in 1..(i - 1) : s[j] # "{"
        b == CHOOSE i \in (a + 1)..Len(s) : s[i] = "}" /\ \A j \in (a + 1)..(i - 1) : s[j] # "}"
    IN  SubSeq(s, a, b)

\* group(0): from the first '{' to the last '}'
JsonSpan(s) ==
    LET a == CHOOSE i \in 1..Len(s) : s[i] = "{" /\ \A j \in 1..(i - 1) : s[j] # "{"
        b == CHOOSE i \in 1..Len(s) : s[i] = "}" /\ \A j \in (i + 1)..Len(s) : s[j] # "}"
    IN  SubSeq(s, a, b)

(* json.loads, on the JSON the replies are drawn from: objects, strings without
   escapes, integers and null.  A parse is [ok, pos, val]: pos is the 1-based
   place after what was read; a value is [kind, s], s being its text. *)
ParseFail == [ok |-> FALSE, pos |-> 0, val |-> [kind |-> "none", s |-> <<>>]]

ParseOk(p, k, str) == [ok |-> TRUE, pos |-> p, val |-> [kind |-> k, s |-> str]]

RECURSIVE SkipWs(_, _)
SkipWs(s, p) == IF p <= Len(s) /\ s[p] \in JsonWs THEN SkipWs(s, p + 1) ELSE p

\* a string starting at the quote s[p]
ParseString(s, p) ==
    IF ~(p <= Len(s) /\ s[p] = Quote) THEN ParseFail
    ELSE IF ~(\E q \in (p + 1)..Len(s) : s[q] = Quote) THEN ParseFail
    ELSE LET q == CHOOSE e \in (p + 1)..Len(s) :
                      s[e] = Quote /\ \A j \in (p + 1)..(e - 1) : s[j] # Quote
         IN  IF \E j \in (p + 1)..(q - 1) : s[j] \in JsonControl THEN ParseFail
             ELSE ParseOk(q + 1, "str", SubSeq(s, p + 1, q - 1))

RECURSIVE DigitsEnd(_, _)
DigitsEnd(s, p) == IF p <= Len(s) /\ s[p] \in DigitChars THEN DigitsEnd(s, p + 1) ELSE p

\* an integer starting at s[p]: 0, or a digit 1-9 and more digits
ParseNumber(s, p) ==
    IF ~(p <= Len(s) /\ s[p] \in DigitChars) THEN ParseFail
    ELSE IF s[p] = "0" THEN ParseOk(p + 1, "num", <<"0">>)
    ELSE ParseOk(DigitsEnd(s, p), "num", SubSeq(s, p, DigitsEnd(s, p) - 1))

ParseNull(s, p) ==
    IF OccursAt(<<"n","u","l","l">>, s, p - 1) THEN ParseOk(p + 4, "null", <<>>)
    ELSE ParseFail

\* dict[k] = v: a key keeps its place, a new key goes last
DictSet(d, k, v) ==
    IF \E i \in 1..Len(d) : d[i].k = k
    THEN [i \in 1..Len(d) |-> IF d[i].k = k THEN [k |-> k, v |-> v] ELSE d[i]]
    ELSE Append(d, [k |-> k, v |-> v])

DictHas(d, k) == \E i \in 1..Len(d) : d[i].k = k

DictAt(d, k) == d[CHOOSE i \in 1..Len(d) : d[i].k = k].v

\* dict.get(k, default)
DictGet(d, k, default) == IF DictHas(d, k) THEN DictAt(d, k) ELSE default

StrVal(str) == [kind |-> "str", s |-> str]

ObjectFail == [ok |-> FALSE, pos |-> 0, dict |-> <<>>]

RECURSIVE ParseValue(_, _)
RECURSIVE ParseMembers(_, _, _)

\* the inside of an object, q the place of its first token
ObjectBody(s, q) ==
    IF q <= Len(s) /\ s[q] = "}" THEN [ok |-> TRUE, pos |-> q + 1, dict |-> <<>>]
    ELSE ParseMembers(s, q, <<>>)

\* an object starting at the brace s[p]: [ok, pos, dict]
ParseObject(s, p) ==
    IF ~(p <= Len(s) /\ s[p] = "{") THEN ObjectFail
    ELSE ObjectBody(s, SkipWs(s, p + 1))

\* an object as a value: its own text
ObjectValue(s, p, o) ==
    IF o.ok THEN ParseOk(o.pos, "obj", SubSeq(s, p, o.pos - 1)) ELSE ParseFail

ParseValue(s, p) ==
    IF p > Len(s) THEN ParseFail
    ELSE IF s[p] = Quote THEN ParseString(s, p)
    ELSE IF s[p] = "{" THEN ObjectValue(s, p, ParseObject(s, p))
    ELSE IF s[p] \in DigitChars THEN ParseNumber(s, p)
    ELSE ParseNull(s, p)

\* after "key": value, with d the members so far and e the place of the next token
AfterMember(s, d, e) ==
    IF e <= Len(s) /\ s[e] = "}" THEN [ok |-> TRUE, pos |-> e + 1, dict |-> d]
    ELSE IF e <= Len(s) /\ s[e] = "," THEN ParseMembers(s, SkipWs(s, e + 1), d)
    ELSE ObjectFail

\* after "key" and the colon, with val the parse of the value
AfterValue(s, d, key, val) ==
    IF ~val.ok THEN ObjectFail
    ELSE AfterMember(s, DictSet(d, key.val.s, val.val), SkipWs(s, val.pos))

\* after "key", with c the place of the next token
AfterKey(s, d, key, c) ==
    IF ~(c <= Len(s) /\ s[c] = ":") THEN ObjectFail
    ELSE AfterValue(s, d, key, ParseValue(s, SkipWs(s, c + 1)))

\* with key the parse of the member's name
MemberFrom(s, d, key) ==
    IF ~key.ok THEN ObjectFail ELSE AfterKey(s, d, key, SkipWs(s, key.pos))

\* "key": value pairs from s[p] on, up to the closing brace
ParseMembers(s, p, d) == MemberFrom(s, d, ParseString(s, p))

\* json.loads(text) for a text that starts with '{': ok is FALSE where it raises
WholeText(text, o) ==
    IF o.ok /\ SkipWs(text, o.pos) = Len(text) + 1 THEN o ELSE ObjectFail

JsonLoads(text) == WholeText(text, ParseObject(text, 1))

NoDetails == [raised |-> FALSE, none |-> TRUE, details |-> <<>>]

SomeDetails(d) == [raised |-> FALSE, none |-> FALSE, details |-> d]

DetailsRaised == [raised |-> TRUE, none |-> FALSE, details |-> <<>>]

\* line 193 storing the field as the model wrote it
SetContainer_Raw(details, cn) ==
    IF cn.kind # "str" THEN NoDetails
    ELSE SomeDetails(DictSet(details, KeyCN, StrVal(cn.s)))

\* line 193: details['Container_Number'] = details.get(...).strip().upper()
SetContainer(details, cn) ==
    IF cn.kind # "str" THEN NoDetails
    ELSE SomeDetails(DictSet(details, KeyCN, StrVal(Upper(Strip(cn.s)))))

\* line 192: details['BL_Number'] = details.get(...).strip().upper()
SetBL(details, bl) ==
    IF bl.kind # "str" THEN NoDetails
    ELSE SetContainer(DictSet(details, KeyBL, StrVal(Upper(Strip(bl.s)))),
                      DictGet(details, KeyCN, StrVal(NOT_FOUND)))

\* lines 189-195, parsed being json.loads(clean_json_string)
Standardize(parsed) ==
    IF ~parsed.ok THEN NoDetails
    ELSE SetBL(parsed.dict, DictGet(parsed.dict, KeyBL, StrVal(NOT_FOUND)))

\* lines 179-195, llm_output being response.text.strip()
DetailsFromOutput(llm_output) ==
    IF ~HasJsonSpan(llm_output) THEN NoDetails
    ELSE Standardize(JsonLoads(JsonSpan(llm_output)))

\* lines 175-195: what is done with response.text
DetailsFromResponse(text) == DetailsFromOutput(Strip(text))

extract_shipping_details_llm_tool(pdf, reply) ==
    IF ~pdf.readable THEN DetailsRaised
    ELSE IF IsBlank(FullText(pdf.pages)) THEN NoDetails
    ELSE IF reply.kind = "error" THEN NoDetails
    ELSE DetailsFromResponse(reply.text)

----------------------------------------------------------------------------
(* Inputs: attachments, model replies, sheets *)

MaxSegs == 3

MaxRun == 11

MaxAttachments == 3

MaxRows == 3

RECURSIVE SeqsUpTo(_, _)
\* the sequences over S of length at most n
SeqsUpTo(S, n) ==
    IF n = 0 THEN {<<>>}
    ELSE LET shorter == SeqsUpTo(S, n - 1)
         IN  shorter \cup {Append(q, x) : q \in {t \in shorter : Len(t) = n - 1}, x \in S}

RECURSIVE Flatten(_)
Flatten(ss) == IF ss = <<>> THEN <<>> ELSE Head(ss) \o Flatten(Tail(ss))

PageBreak == "\f"

RECURSIVE SplitPages(_, _)
\* the pages of a text in which PageBreak separates the pages
SplitPages(s, page) ==
    IF s = <<>> THEN <<page>>
    ELSE IF Head(s) = PageBreak THEN <<page>> \o SplitPages(Tail(s), <<>>)
    ELSE SplitPages(Tail(s), Append(page, Head(s)))

ReadablePdf(pages) == [readable |-> TRUE, pages |-> pages]

UnreadablePdf == [readable |-> FALSE, pages |-> <<>>]

\* pieces of page text: anchors in several cases, identifiers, separators
TextSegments == {
    <<"B","/","L",":">>,
    <<"b","l",":">>,
    <<"B","/","L"," ","N","o",".">>,
    <<"B","i","l","l"," ","o","f"," ","l","a","d","i","n","g"," ",
      "n","u","m","b","e","r",":">>,
    <<"S","H","I","P","M","E","N","T"," ","N","O",".">>,
    <<"A","b","n","1">>,
    <<"X","9">>,
    <<" ">>,
    <<"\n">>,
    <<"-">>,
    <<SharpS>>,
    <<PageBreak>> }

\* a text whose upper-cased form holds an anchor that starts inside the "SS"
\* one character became
SharpHipment == <<SharpS, "h","i","p","m","e","n","t"," ","N","o",".","7","7">>

FinderPdfs ==
    {UnreadablePdf, ReadablePdf(<<>>), ReadablePdf(<<SharpHipment>>)}
        \cup {ReadablePdf(SplitPages(Flatten(segs), <<>>)) : segs \in SeqsUpTo(TextSegments, MaxSegs)}

ScenarioAText ==
    <<".",".","."," ","B","/","L",":"," ","A","B","N","1","2","3","4","5","6"," ",
      "C","O","N","T","A","I","N","E","R"," ",".",".",".">>

OtherText == <<"B","L",":"," ","x","y","z","9","8","7","6","5","4","3","2","\n","e","n","d">>

\* attachments as the model-assisted extractors tell them apart
LlmPdfs == {
    UnreadablePdf,
    ReadablePdf(<<>>),
    ReadablePdf(<<<<" ", "\n">>, <<>>>>),
    ReadablePdf(<<ScenarioAText>>),
    ReadablePdf(<<OtherText, ScenarioAText>>) }

ErrorReply == [kind |-> "error", text |-> <<>>]

TextReply(t) == [kind |-> "text", text |-> t]

RunBase == <<"A","B","C","1","2","3","4","5","6","7","8","Z","9","Y","8">>

LowerRun == <<"a","b","c","1","2","3","4","5","6","7","8">>

IdReplyPrefixes == {<<>>, <<" ">>, <<"B","L",":"," ">>, <<"A","B","1","2","3","4","5",",">>, <<SharpS>>}

IdReplyCores ==
    {SliceTo(RunBase, n) : n \in 0..MaxRun}
        \cup {LowerRun, BL_Number_Not_Found,
              <<"b","l"," ","n","u","m","b","e","r"," ","n","o","t"," ","f","o","u","n","d">>,
              <<"?","!">>}

IdReplySuffixes == {<<>>, <<"\n">>, <<".">>, <<" ","X","Y","Z","9","8","7","6","5","4">>}

\* replies of the model to the single-field prompt
IdReplies ==
    {ErrorReply}
        \cup {TextReply(a \o b \o c) : a \in IdReplyPrefixes, b \in IdReplyCores, c \in IdReplySuffixes}

----------------------------------------------------------------------------
(* One call of an extractor *)

None == <<"None">>

\* main() is not running
MainIdle ==
    /\ variant = "none"
    /\ yielded = <<>>
    /\ all_files_to_upload = <<>>
    /\ latest_bl_number = None
    /\ container_number = None
    /\ sheet_data = <<>>
    /\ calls = <<>>
    /\ log = <<>>

mainVars == <<variant, yielded, all_files_to_upload, latest_bl_number,
              container_number, sheet_data, calls, log>>

InitFinder ==
    /\ pc = "call"
    /\ pdf_data \in FinderPdfs
    /\ llm_reply = ErrorReply
    /\ result = Pending
    /\ model_calls = <<>>
    /\ MainIdle

\* extract_bl_number_from_pdf(pdf_data)
CallFinder ==
    /\ pc = "call"
    /\ result' = extract_bl_number_from_pdf(pdf_data)
    /\ pc' = "done"
    /\ UNCHANGED <<pdf_data, llm_reply, model_calls, mainVars>>

NextFinder == CallFinder

SpecFinder == InitFinder /\ [][NextFinder]_vars

InitLlm ==
    /\ pc = "call"
    /\ pdf_data \in LlmPdfs
    /\ llm_reply \in IdReplies
    /\ result = Pending
    /\ model_calls = <<>>
    /\ MainIdle

\* the prompts after one extractor call on pdf
ModelCallsAfter(pdf, sent) ==
    IF CallsModel(pdf) THEN Append(sent, PromptText(FullText(pdf.pages))) ELSE sent

\* extract_bl_number_llm_tool(pdf_data)
CallLlmTool ==
    /\ pc = "call"
    /\ result' = extract_bl_number_llm_tool(pdf_data, llm_reply)
    /\ model_calls' = ModelCallsAfter(pdf_data, model_calls)
    /\ pc' = "done"
    /\ UNCHANGED <<pdf_data, llm_reply, mainVars>>

NextLlm == CallLlmTool

SpecLlm == InitLlm /\ [][NextLlm]_vars

----------------------------------------------------------------------------
(* Replies to the two-field prompt, and one call of the structured extractor *)

Q(str) == <<Quote>> \o str \o <<Quote>>

\* "key": value
Member(key, value) == Q(key) \o <<":", " ">> \o value

RECURSIVE JoinMembers(_)
JoinMembers(ms) ==
    IF ms = <<>> THEN <<>>
    ELSE IF Len(ms) = 1 THEN ms[1]
    ELSE ms[1] \o <<",", " ">> \o JoinMembers(Tail(ms))

\* the text of a JSON object
Obj(ms) == <<"{">> \o JoinMembers(ms) \o <<"}">>

Temu == <<"T","E","M","U","1","2","3","4","5","6","7">>

TemuLower == <<"t","e","m","u","1","2","3","4","5","6","7">>

Msku == <<"M","S","K","U","7","6","5","4","3","2","1">>

Abc123 == <<"a","b","c","1","2","3">>

Xyz9 == <<" ","X","y","z","9"," ">>

\* JSON objects whose two fields, where present, are strings
StringFieldObjects == {
    Obj(<<Member(KeyBL, Q(Abc123)), Member(KeyCN, Q(NOT_FOUND))>>),
    Obj(<<Member(KeyBL, Q(Xyz9)), Member(KeyCN, Q(TemuLower))>>),
    Obj(<<Member(KeyCN, Q(Msku))>>),
    Obj(<<Member(KeyBL, Q(NOT_FOUND)), Member(<<"n","o","t","e">>, Obj(<<Member(<<"k">>, <<"7">>)>>)),
          Member(KeyCN, Q(Temu)), Member(KeyBL, Q(<<"d","e","f","4","5","6">>))>>),
    <<"{", "\n", " ">> \o Member(KeyBL, Q(<<>>)) \o <<"\n", "}">>,
    Obj(<<Member(KeyBL, Q(<<" ", SharpS, "9", " ">>)), Member(KeyCN, Q(<<" ">>))>>),
    Obj(<<>>) }

\* JSON objects with a field that is no string
OtherFieldObjects == {
    Obj(<<Member(KeyBL, <<"n","u","l","l">>), Member(KeyCN, Q(Temu))>>),
    Obj(<<Member(KeyBL, Q(Abc123)), Member(KeyCN, <<"1","2","0">>)>>),
    Obj(<<Member(KeyBL, Obj(<<Member(<<"i","d">>, Q(Abc123))>>))>>) }

\* texts in braces that json.loads refuses
BrokenObjects == {
    <<"{">> \o Member(KeyBL, Q(Abc123)) \o <<",", "}">>,
    <<"{">> \o KeyBL \o <<":", " ">> \o Abc123 \o <<"}">>,
    <<"{">> \o Member(KeyBL, <<"0","1","2">>) \o <<"}">>,
    <<"{">> \o Member(KeyBL, Q(<<"a","\n","b">>)) \o <<"}">> }

NoObjects == {<<>>, <<"N","O","T","_","F","O","U","N","D">>, <<"}">>}

ProsePrefixes == {<<>>, <<" ","\n">>, <<"H","e","r","e",":","\n">>, <<"s","e","e"," ","{","x","}",":"," ">>, <<"}"," ">>}

ProseSuffixes == {<<>>, <<"\n","T","h","a","n","k","s","!">>, <<" ","{","d","o","n","e","}">>, <<" ","{">>}

ReplyBodies == StringFieldObjects \cup OtherFieldObjects \cup BrokenObjects \cup NoObjects

\* replies of the model to the two-field prompt
DetailReplies ==
    {ErrorReply}
        \cup {TextReply(a \o b \o c) : a \in ProsePrefixes, b \in ReplyBodies, c \in ProseSuffixes}

InitStructured ==
    /\ pc = "call"
    /\ pdf_data \in LlmPdfs
    /\ llm_reply \in DetailReplies
    /\ result = Pending
    /\ model_calls = <<>>
    /\ MainIdle

\* extract_shipping_details_llm_tool(pdf_data)
CallDetailsTool ==
    /\ pc = "call"
    /\ result' = extract_shipping_details_llm_tool(pdf_data, llm_reply)
    /\ model_calls' = ModelCallsAfter(pdf_data, model_calls)
    /\ pc' = "done"
    /\ UNCHANGED <<pdf_data, llm_reply, mainVars>>

NextStructured == CallDetailsTool

SpecStructured == InitStructured /\ [][NextStructured]_vars

----------------------------------------------------------------------------
(* main(): the three variants *)

BlankPdf == ReadablePdf(<<<<" ", "\n">>, <<>>>>)

PdfA == ReadablePdf(<<ScenarioAText>>)

PdfB == ReadablePdf(<<OtherText>>)

Abc12345678 == SliceTo(RunBase, 11)

\* what the mail search can yield to each variant: [file_data, reply]
AttachmentKinds(v) ==
    IF v = "pattern" THEN
        {[file_data |-> d, reply |-> ErrorReply] :
            d \in {PdfA, PdfB, BlankPdf, ReadablePdf(<<Temu>>), UnreadablePdf}}
    ELSE IF v = "llm" THEN
        { [file_data |-> PdfA, reply |-> TextReply(Abc12345678)],
          [file_data |-> PdfB, reply |-> TextReply(<<" ">> \o LowerRun \o <<"9", "\n">>)],
          [file_data |-> PdfA, reply |-> ErrorReply],
          [file_data |-> PdfB, reply |-> TextReply(BL_Number_Not_Found)],
          [file_data |-> BlankPdf, reply |-> TextReply(Abc12345678)],
          [file_data |-> UnreadablePdf, reply |-> TextReply(Abc12345678)] }
    ELSE
        { [file_data |-> PdfA, reply |-> TextReply(
              Obj(<<Member(KeyBL, Q(Abc123)), Member(KeyCN, Q(TemuLower))>>) \o <<"\n","o","k">>)],
          [file_data |-> PdfB, reply |-> TextReply(
              Obj(<<Member(KeyBL, Q(Xyz9)), Member(KeyCN, Q(NOT_FOUND))>>))],
          [file_data |-> PdfB, reply |-> TextReply(Obj(<<Member(KeyCN, Q(Msku))>>))],
          [file_data |-> PdfA, reply |-> ErrorReply],
          [file_data |-> PdfA, reply |-> TextReply(
              <<"{","x","}"," ">> \o Obj(<<Member(KeyBL, Q(Abc123)), Member(KeyCN, Q(Temu))>>))],
          [file_data |-> BlankPdf, reply |-> TextReply(
              Obj(<<Member(KeyBL, Q(Abc123)), Member(KeyCN, Q(Temu))>>))],
          [file_data |-> UnreadablePdf, reply |-> ErrorReply] }

Cell_x == <<"x">>

HeaderRow == << <<"h","e","a","d","e","r">> >>

\* rows of the sheet: a header, and rows with a column D
SheetRows == {
    HeaderRow,
    <<Cell_x, <<"y">>, <<"z">>, Temu>>,
    <<Cell_x, <<"y">>, <<"z">>, <<"c","n"," ">> \o Temu \o <<"/","2">>, <<"o","l","d">> >>,
    <<Cell_x, <<"y">>, <<"z">>, Msku>> }

Sheets == SeqsUpTo(SheetRows, MaxRows)

CONTAINER_COLUMN_INDEX == 3

FolderPrefix ==
    <<"S","h","i","p","m","e","n","t"," ","D","o","c","u","m","e","n","t","s"," ","-"," ">>

Not_Found == <<"N","o","t","_","F","o","u","n","d">>

\* a call to Drive or Sheets: the cell (col, row), the text and the file it carries
Call(op, col, row, text, file) ==
    [op |-> op, col |-> col, row |-> row, text |-> text, file |-> file]

\* create_drive_folder(drive_service, folder_name)
create_drive_folder(folder_name) == Call("create_folder", "", 0, folder_name, 0)

\* the id Drive returns for the folder created under folder_name
FolderId(folder_name) == folder_name

\* upload_to_drive(drive_service, folder_id, filename, file_data)
upload_to_drive(folder_id, file_info) == Call("upload", "", 0, folder_id, file_info.filename)

\* get_sheet_data(sheets_service)
get_sheet_data == Call("get_sheet", "", 0, <<>>, 0)

\* update_sheet_cell(...): the cell Sheet1!<bl_column_letter><row_index + 1>
update_sheet_cell(row_index, bl_number, bl_column_letter) ==
    Call("update_cell", bl_column_letter, row_index + 1, bl_number, 0)

InitMain ==
    /\ pc = "loop"
    /\ variant \in {"pattern", "llm", "structured"}
    /\ yielded = <<>>
    /\ all_files_to_upload = <<>>
    /\ latest_bl_number = None
    /\ container_number = None
    /\ sheet_data = <<>>
    /\ calls = <<>>
    /\ log = <<>>
    /\ model_calls = <<>>
    /\ pdf_data = UnreadablePdf
    /\ llm_reply = ErrorReply
    /\ result = Pending

extractorVars == <<pdf_data, llm_reply, result>>

FileInfo(n, att) == [filename |-> n, file_data |-> att.file_data]

\* the loop body of main.py and main_1.py, current_bl_number being the extractor's outcome
SingleFieldRound(att, current_bl_number) ==
    /\ yielded' = Append(yielded, att)
    /\ IF current_bl_number.raised
       THEN /\ pc' = "raised"
            /\ UNCHANGED <<latest_bl_number, all_files_to_upload>>
       ELSE /\ pc' = "loop"
            /\ latest_bl_number' =
                   IF latest_bl_number = None THEN current_bl_number.value
                   ELSE latest_bl_number
            /\ all_files_to_upload' =
                   Append(all_files_to_upload, FileInfo(Len(yielded) + 1, att))

\* the loop body of main_2.py, details being the extractor's outcome
StructuredRound(att, details) ==
    /\ yielded' = Append(yielded, att)
    /\ IF details.raised
       THEN /\ pc' = "raised"
            /\ UNCHANGED <<latest_bl_number, container_number, all_files_to_upload, log>>
       ELSE IF details.none
       THEN /\ pc' = "loop"
            /\ log' = Append(log, "skipping_file")
            /\ UNCHANGED <<latest_bl_number, container_number, all_files_to_upload>>
       ELSE /\ pc' = "loop"
            /\ latest_bl_number' =
                   IF latest_bl_number = None THEN DictAt(details.details, KeyBL).s
                   ELSE latest_bl_number
            /\ container_number' =
                   IF latest_bl_number = None THEN DictAt(details.details, KeyCN).s
                   ELSE container_number
            /\ all_files_to_upload' =
                   Append(all_files_to_upload, FileInfo(Len(yielded) + 1, att))
            /\ UNCHANGED log

\* main.py, one round of "for filename, file_data in get_gmail_attachments(...)"
ProcessPattern ==
    /\ pc = "loop" /\ variant = "pattern" /\ Len(yielded) < MaxAttachments
    /\ \E att \in AttachmentKinds(variant) :
           SingleFieldRound(att, extract_bl_number_from_pdf(att.file_data))
    /\ UNCHANGED <<variant, container_number, sheet_data, calls, log, model_calls, extractorVars>>

\* main_1.py, one round of the loop
ProcessLlm ==
    /\ pc = "loop" /\ variant = "llm" /\ Len(yielded) < MaxAttachments
    /\ \E att \in AttachmentKinds(variant) :
           /\ SingleFieldRound(att, extract_bl_number_llm_tool(att.file_data, att.reply))
           /\ model_calls' = ModelCallsAfter(att.file_data, model_calls)
    /\ UNCHANGED <<variant, container_number, sheet_data, calls, log, extractorVars>>

\* main_2.py, one round of the loop
ProcessStructured ==
    /\ pc = "loop" /\ variant = "structured" /\ Len(yielded) < MaxAttachments
    /\ \E att \in AttachmentKinds(variant) :
           /\ StructuredRound(att, extract_shipping_details_llm_tool(att.file_data, att.reply))
           /\ model_calls' = ModelCallsAfter(att.file_data, model_calls)
    /\ UNCHANGED <<variant, sheet_data, calls, extractorVars>>

\* the generator is exhausted and nothing was collected: main() returns
NoDocuments ==
    /\ pc = "loop"
    /\ all_files_to_upload = <<>>
    /\ pc' = "done"
    /\ log' = Append(log, "no_documents")
    /\ UNCHANGED <<variant, yielded, all_files_to_upload, latest_bl_number, container_number,
                   sheet_data, calls, model_calls, extractorVars>>

\* main() going on to the folder whatever was collected
LoopDone_Unguarded ==
    /\ pc = "loop"
    /\ pc' = IF variant = "structured" THEN "sheets" ELSE "drive"
    /\ UNCHANGED <<variant, yielded, all_files_to_upload, latest_bl_number, container_number,
                   sheet_data, calls, log, model_calls, extractorVars>>

\* the generator is exhausted and files were collected
LoopDone ==
    /\ pc = "loop"
    /\ all_files_to_upload # <<>>
    /\ pc' = IF variant = "structured" THEN "sheets" ELSE "drive"
    /\ UNCHANGED <<variant, yielded, all_files_to_upload, latest_bl_number, container_number,
                   sheet_data, calls, log, model_calls, extractorVars>>

\* line 252: the row at index i matches
RowMatches(i, row, container) ==
    /\ i > 0
    /\ Len(row) > CONTAINER_COLUMN_INDEX
    /\ Contains(container, row[CONTAINER_COLUMN_INDEX + 1])

\* the else branch of line 257, then the rest of the loop
WarnThen(rest) == [calls |-> rest.calls, log |-> <<"container_not_found">> \o rest.log]

RECURSIVE ScanRows_NoBreak(_, _, _, _)
\* the loop without its break: every matching row is updated
ScanRows_NoBreak(rows, i, container, bl_number) ==
    IF i >= Len(rows) THEN [calls |-> <<>>, log |-> <<>>]
    ELSE IF RowMatches(i, rows[i + 1], container)
         THEN [calls |-> <<update_sheet_cell(i, bl_number, "E")>>
                             \o ScanRows_NoBreak(rows, i + 1, container, bl_number).calls,
               log |-> <<"sheet_updated">>
                           \o ScanRows_NoBreak(rows, i + 1, container, bl_number).log]
         ELSE WarnThen(ScanRows_NoBreak(rows, i + 1, container, bl_number))

RECURSIVE ScanRows(_, _, _, _)
\* "for i, row in enumerate(sheet_data):" from index i on: the calls and messages it adds
ScanRows(rows, i, container, bl_number) ==
    IF i >= Len(rows) THEN [calls |-> <<>>, log |-> <<>>]
    ELSE IF RowMatches(i, rows[i + 1], container)
         THEN [calls |-> <<update_sheet_cell(i, bl_number, "E")>>, log |-> <<"sheet_updated">>]
         ELSE WarnThen(ScanRows(rows, i + 1, container, bl_number))

\* line 243: if container_number and "NOT_FOUND" not in container_number
WantsLookup(container) ==
    container # None /\ container # <<>> /\ ~Contains(NOT_FOUND, container)

\* what the scan leaves behind
ScanEffect(scan) ==
    /\ calls' = Append(calls, get_sheet_data) \o scan.calls
    /\ log' = log \o scan.log

\* main_2.py, step 2 with a container to look up
SheetLookup ==
    /\ pc = "sheets"
    /\ WantsLookup(container_number)
    /\ \E rows \in Sheets :
           /\ sheet_data' = rows
           /\ ScanEffect(ScanRows(rows, 0, container_number, latest_bl_number))
    /\ pc' = "drive"
    /\ UNCHANGED <<variant, yielded, all_files_to_upload, latest_bl_number, container_number,
                   model_calls, extractorVars>>

\* main_2.py, step 2 without one
SkipLookup ==
    /\ pc = "sheets"
    /\ ~WantsLookup(container_number)
    /\ pc' = "drive"
    /\ UNCHANGED <<variant, yielded, all_files_to_upload, latest_bl_number, container_number,
                   sheet_data, calls, log, model_calls, extractorVars>>

\* the text whose presence in the identifier draws the generic-name warning
NotFoundMark(v) == IF v = "structured" THEN NOT_FOUND ELSE Not_Found

\* folder_name = ...; folder_id = create_drive_folder(...); the warning
CreateFolder ==
    /\ pc = "drive"
    /\ calls' = Append(calls, create_drive_folder(FolderPrefix \o latest_bl_number))
    /\ log' = IF Contains(NotFoundMark(variant), latest_bl_number)
              THEN Append(log, "bl_not_found") ELSE log
    /\ pc' = "upload"
    /\ UNCHANGED <<variant, yielded, all_files_to_upload, latest_bl_number, container_number,
                   sheet_data, model_calls, extractorVars>>

\* the uploads of the list taken from its end
UploadAll_Reversed ==
    /\ pc = "upload"
    /\ calls' = calls \o [n \in 1..Len(all_files_to_upload) |->
                              upload_to_drive(FolderId(FolderPrefix \o latest_bl_number),
                                  all_files_to_upload[Len(all_files_to_upload) + 1 - n])]
    /\ pc' = "done"
    /\ UNCHANGED <<variant, yielded, all_files_to_upload, latest_bl_number, container_number,
                   sheet_data, log, model_calls, extractorVars>>

\* "for file_info in all_files_to_upload: upload_to_drive(...)"
UploadAll ==
    /\ pc = "upload"
    /\ calls' = calls \o [n \in 1..Len(all_files_to_upload) |->
                              upload_to_drive(FolderId(FolderPrefix \o latest_bl_number),
                                              all_files_to_upload[n])]
    /\ pc' = "done"
    /\ UNCHANGED <<variant, yielded, all_files_to_upload, latest_bl_number, container_number,
                   sheet_data, log, model_calls, extractorVars>>

NextMain ==
    \/ ProcessPattern
    \/ ProcessLlm
    \/ ProcessStructured
    \/ NoDocuments
    \/ LoopDone
    \/ SheetLookup
    \/ SkipLookup
    \/ CreateFolder
    \/ UploadAll

SpecMain == InitMain /\ [][NextMain]_vars

----------------------------------------------------------------------------
(* One call of the extractor of each source file on the same attachments *)

\* pieces of page text: whitespace of every kind str.strip() removes here,
\* a page break, a word and an anchor
BlankSegments == {
    <<" ">>, <<"\n">>, <<"\r">>, <<"\t">>, <<PageBreak>>,
    <<"x","9">>, <<"B","L",":">> }

\* attachments whose text is empty, whitespace-only or neither
MostlyBlankPdfs ==
    {UnreadablePdf, ReadablePdf(<<>>)}
        \cup {ReadablePdf(SplitPages(Flatten(ss), <<>>)) : ss \in SeqsUpTo(BlankSegments, MaxSegs)}

\* what the model would answer if it were asked
WouldBeReplies(v) ==
    IF v = "pattern" THEN {ErrorReply}
    ELSE IF v = "llm" THEN {ErrorReply, TextReply(Abc12345678)}
    ELSE {ErrorReply, TextReply(Obj(<<Member(KeyBL, Q(Abc123)), Member(KeyCN, Q(Temu))>>))}

\* variant names the source file whose extractor is called
InitExtractors ==
    /\ pc = "call"
    /\ variant \in {"pattern", "llm", "structured"}
    /\ pdf_data \in MostlyBlankPdfs
    /\ llm_reply \in WouldBeReplies(variant)
    /\ result = Pending
    /\ model_calls = <<>>
    /\ yielded = <<>>
    /\ all_files_to_upload = <<>>
    /\ latest_bl_number = None
    /\ container_number = None
    /\ sheet_data = <<>>
    /\ calls = <<>>
    /\ log = <<>>

PatternCall == variant = "pattern" /\ CallFinder

LlmCall == variant = "llm" /\ CallLlmTool

StructuredCall == variant = "structured" /\ CallDetailsTool

NextExtractors ==
    \/ PatternCall
    \/ LlmCall
    \/ StructuredCall

SpecExtractors == InitExtractors /\ [][NextExtractors]_vars

----------------------------------------------------------------------------
(* Claims about the pattern-based finder, checked under SpecFinder *)

\* the text the finder searches, for a readable attachment
FinderText == FullText(pdf_data.pages)

FinderDone == pc = "done" /\ pdf_data.readable

\* keyword k stands in text at the 0-based offset i, whatever the case of its letters
AnchorAt(text, k, i) ==
    /\ i + Len(keywords[k]) <= Len(text)
    /\ Upper(SubSeq(text, i + 1, i + Len(keywords[k]))) = Upper(keywords[k])

AnchorPlaces(text) ==
    {pl \in (1..Len(keywords)) \X (0..Len(text)) : AnchorAt(text, pl[1], pl[2])}

RECURSIVE RunAt(_, _)
\* the letters and digits that stand in text from the 0-based offset j on
RunAt(text, j) ==
    IF j < Len(text) /\ text[j + 1] \in valid_chars
    THEN <<text[j + 1]>> \o RunAt(text, j + 1)
    ELSE <<>>

\* the run that immediately follows the anchor standing at pl
RunAfterAnchor(text, pl) == RunAt(text, pl[2] + Len(keywords[pl[1]]))

\* C1: a text holding an anchor immediately followed by a run R of letters and
\* digits makes the finder return "BL-" + uppercase(R).  Stated for the texts
\* that hold one anchor occurrence only, where the claim leaves no choice of anchor.
C1_AnchorRunReturned ==
    FinderDone =>
        \A pl \in AnchorPlaces(FinderText) :
            (AnchorPlaces(FinderText) = {pl} /\ RunAfterAnchor(FinderText, pl) # <<>>)
                => result = Returned(BLPrefix \o Upper(RunAfterAnchor(FinderText, pl)))

\* the anchors, by index, that occur in the upper-cased text
Occurring(text) == {k \in 1..Len(keywords) : Contains(Upper(keywords[k]), Upper(text))}

FirstOccurring(text) == CHOOSE k \in Occurring(text) : \A j \in Occurring(text) : k <= j

\* the occurring anchors whose scan accumulates a non-empty run
Yielding(text) == {k \in Occurring(text) : FoundId(text, keywords[k]) # <<>>}

\* C2 as stated: the first occurring anchor alone decides; when its run is empty
\* the finder returns the sentinel.
C2_FirstAnchorDecides ==
    (FinderDone /\ Occurring(FinderText) # {}) =>
        result = Returned(
            IF FoundId(FinderText, keywords[FirstOccurring(FinderText)]) = <<>>
            THEN BL_Number_Not_Found
            ELSE BLPrefix \o FoundId(FinderText, keywords[FirstOccurring(FinderText)]))

\* C2 amended: the first occurring anchor, in priority order, whose scan
\* accumulates a non-empty run decides; an occurring anchor with an empty run is
\* passed over, and the sentinel is returned only when no occurring anchor
\* accumulates a non-empty run.
C2_FirstYieldingAnchorDecides ==
    FinderDone =>
        /\ (Yielding(FinderText) = {}) => result = Returned(BL_Number_Not_Found)
        /\ \A k \in Yielding(FinderText) :
               (\A j \in Yielding(FinderText) : k <= j)
                   => result = Returned(BLPrefix \o FoundId(FinderText, keywords[k]))

\* an occurring anchor with an empty run was passed over for a lower-priority one
C2_Witness ==
    /\ FinderDone
    /\ Occurring(FinderText) # {}
    /\ FirstOccurring(FinderText) \notin Yielding(FinderText)
    /\ Yielding(FinderText) # {}
    /\ result.value # BL_Number_Not_Found

\* case folding of one character: a sequence, since U+00DF folds to "ss"
FoldChar(c) ==
    IF c = SharpS THEN <<"s", "s">>
    ELSE IF \E i \in 1..26 : UpperLetters[i] = c
         THEN <<LowerLetters[CHOOSE i \in 1..26 : UpperLetters[i] = c]>>
         ELSE <<c>>

RECURSIVE Fold(_)
\* the text with case differences folded away
Fold(s) == IF s = <<>> THEN <<>> ELSE FoldChar(Head(s)) \o Fold(Tail(s))

\* no configured anchor occurs in the text, case differences ignored
NoAnchor(text) == \A k \in 1..Len(keywords) : ~Contains(Fold(keywords[k]), Fold(text))

----------------------------------------------------------------------------
(* Claims about extract_bl_number_llm_tool, checked under SpecLlm *)

\* the call reached the sanitizer: the model was asked and answered with a text
Sanitized == pc = "done" /\ CallsModel(pdf_data) /\ llm_reply.kind = "text"

\* c of the claim: the reply trimmed and upper-cased
Cleaned == Upper(Strip(llm_reply.text))

\* the maximal runs of [A-Z0-9] in c of at least MinRunLen characters, as <<first, last>>
LongRuns(c) ==
    {r \in (1..Len(c)) \X (1..Len(c)) :
        /\ r[2] - r[1] + 1 >= MinRunLen
        /\ \A k \in r[1]..r[2] : IsRunChar(c[k])
        /\ (r[1] = 1 \/ ~IsRunChar(c[r[1] - 1]))
        /\ (r[2] = Len(c) \/ ~IsRunChar(c[r[2] + 1]))}

LeftmostRun(c) == CHOOSE r \in LongRuns(c) : \A q \in LongRuns(c) : r[1] <= q[1]

\* C3: the sanitizer returns the sentinel for the two not-found phrases, else
\* "BL-" + the leftmost run of at least 8 characters of A-Z/0-9, else "BL-" + c;
\* the reply "ABC12345678" gives "BL-ABC12345678".
C3_SanitizerCases ==
    Sanitized =>
        /\ result = Returned(
               IF Cleaned \in NotFoundPhrases THEN BL_Number_Not_Found
               ELSE IF LongRuns(Cleaned) # {}
                    THEN BLPrefix \o SubSeq(Cleaned, LeftmostRun(Cleaned)[1], LeftmostRun(Cleaned)[2])
                    ELSE BLPrefix \o Cleaned)
        /\ (llm_reply.text = Abc12345678) => result.value = BLPrefix \o Abc12345678

\* a reply with two long runs, the leftmost longer than eight and not at the start
C3_Witness ==
    /\ Sanitized
    /\ Cardinality(LongRuns(Cleaned)) = 2
    /\ LeftmostRun(Cleaned)[1] > 1
    /\ LeftmostRun(Cleaned)[2] - LeftmostRun(Cleaned)[1] + 1 > MinRunLen
    /\ result.value = BLPrefix \o SubSeq(Cleaned, LeftmostRun(Cleaned)[1], LeftmostRun(Cleaned)[2])

\* C5: the extractor never raises to its caller, whatever the attachment, and an
\* error of the model call gives the sentinel.
C5_NeverRaises ==
    pc = "done" =>
        /\ ~result.raised
        /\ (CallsModel(pdf_data) /\ llm_reply.kind = "error")
               => result.value = BL_Number_Not_Found

\* v is "BL-" and a payload of one or more characters of A-Z/0-9, or the sentinel
WellFormedIdentifier(v) ==
    \/ v = BL_Number_Not_Found
    \/ /\ Len(v) > Len(BLPrefix)
       /\ SubSeq(v, 1, Len(BLPrefix)) = BLPrefix
       /\ \A k \in (Len(BLPrefix) + 1)..Len(v) : IsRunChar(v[k])

\* C10: every returned value is the sentinel or "BL-" and a non-empty upper-case
\* payload of letters and digits.
C10_IdentifierShape ==
    (pc = "done" /\ ~result.raised) => WellFormedIdentifier(result.value)

----------------------------------------------------------------------------
(* Claims about extract_shipping_details_llm_tool, checked under SpecStructured *)

\* the call reached the JSON isolation: the model was asked and answered with a text
Isolated == pc = "done" /\ CallsModel(pdf_data) /\ llm_reply.kind = "text"

\* b is the text of a JSON object
IsJsonObject(b) == b # <<>> /\ b[1] = "{" /\ JsonLoads(b).ok

\* ... whose BL_Number and Container_Number, where present, are strings
HasStringFields(b) ==
    /\ DictGet(JsonLoads(b).dict, KeyBL, StrVal(NOT_FOUND)).kind = "str"
    /\ DictGet(JsonLoads(b).dict, KeyCN, StrVal(NOT_FOUND)).kind = "str"

Trimmed(d, key) == StrVal(Upper(Strip(DictGet(d, key, StrVal(NOT_FOUND)).s)))

\* the object b with the two fields trimmed and upper-cased, NOT_FOUND for a missing one
NormalizedObject(b) ==
    DictSet(DictSet(JsonLoads(b).dict, KeyBL, Trimmed(JsonLoads(b).dict, KeyBL)),
            KeyCN, Trimmed(JsonLoads(b).dict, KeyCN))

ScenarioCReply ==
    Obj(<<Member(KeyBL, Q(Abc123)), Member(KeyCN, Q(NOT_FOUND))>>)
        \o <<"\n","T","h","a","n","k","s","!">>

NoBraceReply == \A k \in 1..Len(llm_reply.text) : llm_reply.text[k] # "{"

DetailsReturned == pc = "done" /\ ~result.raised /\ ~result.none

\* what json.loads made of the span cut out of the model's reply
ParsedReply == JsonLoads(JsonSpan(Strip(llm_reply.text))).dict

\* the dict d holds key with a string that is its own trimmed, upper-cased form
Standardized(d, key) ==
    /\ DictHas(d, key)
    /\ DictAt(d, key).kind = "str"
    /\ DictAt(d, key).s = Upper(Strip(DictAt(d, key).s))

\* C11: a returned dict holds BL_Number and Container_Number, each a string
\* equal to its own trimmed, upper-cased form; a key missing from the parsed
\* object is NOT_FOUND; each field is made from the parsed object's field of
\* the same key alone, so one being NOT_FOUND does not make the other so.
C11_BothFieldsStandardized ==
    DetailsReturned =>
        \A key \in {KeyBL, KeyCN} :
            /\ Standardized(result.details, key)
            /\ ~DictHas(ParsedReply, key) => DictAt(result.details, key) = StrVal(NOT_FOUND)
            /\ DictHas(ParsedReply, key) =>
                   DictAt(result.details, key) = StrVal(Upper(Strip(DictAt(ParsedReply, key).s)))

\* a dict was returned whose BL_Number, missing from the parsed object, is
\* NOT_FOUND while its Container_Number is the identifier the model gave
C11_Witness ==
    /\ DetailsReturned
    /\ ~DictHas(ParsedReply, KeyBL)
    /\ DictAt(result.details, KeyBL) = StrVal(NOT_FOUND)
    /\ DictAt(result.details, KeyCN) = StrVal(Msku)

----------------------------------------------------------------------------
(* Claims about the three extractors side by side, checked under SpecExtractors *)

\* every character of t is whitespace (the empty text included)
WhitespaceOnly(t) == \A i \in 1..Len(t) : t[i] \in Whitespace

\* the extractor was called on a readable attachment whose text is whitespace-only
CalledOnBlank ==
    pc = "done" /\ pdf_data.readable /\ WhitespaceOnly(FullText(pdf_data.pages))

\* C12: on an extracted text that is empty or whitespace-only the pattern
\* finder and the single-field extractor return BL_Number_Not_Found, the
\* two-field extractor returns None, and no prompt was sent to the model.
C12_BlankTextNotFound ==
    CalledOnBlank =>
        /\ variant \in {"pattern", "llm"} => result = Returned(BL_Number_Not_Found)
        /\ variant = "structured" => result = NoDetails
        /\ model_calls = <<>>

\* the two-field extractor was called on several pages of nothing but
\* whitespace, the model would have answered with a valid object, and the
\* call returned None without asking it
C12_Witness ==
    /\ CalledOnBlank
    /\ variant = "structured"
    /\ Len(pdf_data.pages) > 1
    /\ FullText(pdf_data.pages) # <<>>
    /\ llm_reply.kind = "text"
    /\ result = NoDetails
    /\ model_calls = <<>>

----------------------------------------------------------------------------
(* Claims about main(), checked under SpecMain *)

\* what the variant's extractor makes of an attachment
FirstSingleField ==
    IF variant = "pattern" THEN extract_bl_number_from_pdf(yielded[1].file_data)
    ELSE extract_bl_number_llm_tool(yielded[1].file_data, yielded[1].reply)

FirstDetails == extract_shipping_details_llm_tool(yielded[1].file_data, yielded[1].reply)

\* C6, first part: the identifier kept (and the container kept) is the one
\* extracted from the first attachment the mail search yielded.
C6_LatestIsFromFirstYielded ==
    (latest_bl_number # None) =>
        IF variant = "structured"
        THEN /\ ~FirstDetails.none
             /\ latest_bl_number = DictAt(FirstDetails.details, KeyBL).s
             /\ container_number = DictAt(FirstDetails.details, KeyCN).s
        ELSE latest_bl_number = FirstSingleField.value

\* C6, second part: once set, the identifier and the container kept are not changed.
C6_OnceSetNeverChanged ==
    [][(latest_bl_number # None) =>
           (latest_bl_number' = latest_bl_number /\ container_number' = container_number)]_vars

CallsOf(op) == SelectSeq(calls, LAMBDA c : c.op = op)

RunEnded == pc \in {"done", "raised"}

AllReadable == \A n \in 1..Len(yielded) : yielded[n].file_data.readable

\* C7: a run in which the mail search yielded an attachment ends with a folder
\* created and documents uploaded, whatever extraction made of the attachments
\* (stated for runs whose attachments PdfReader can read).
C7_FolderWheneverYielded ==
    (RunEnded /\ yielded # <<>> /\ AllReadable) =>
        /\ pc = "done"
        /\ Len(CallsOf("create_folder")) = 1
        /\ CallsOf("upload") # <<>>

\* the scan of the sheet is over
ScanOver ==
    /\ variant = "structured"
    /\ pc \in {"drive", "upload", "done"}
    /\ CallsOf("get_sheet") # <<>>

\* 0-based indexes of the data rows whose column D holds the container
MatchingRows ==
    {i \in 1..(Len(sheet_data) - 1) :
        /\ Len(sheet_data[i + 1]) >= 4
        /\ Contains(container_number, sheet_data[i + 1][4])}

FirstMatch == CHOOSE i \in MatchingRows : \A j \in MatchingRows : i <= j

Count(seq, x) == Cardinality({n \in 1..Len(seq) : seq[n] = x})

ExampleSheet == <<HeaderRow, <<Cell_x, <<"y">>, <<"z">>, Temu>> >>

\* C8: the scan skips row 0, matches by substring on column D, and on the first
\* matching row i issues one update of E<i+1> with the identifier kept and stops
\* (the rows before it were passed, none after it was looked at); no run issues
\* more than one update; the example sheet gives one update, at row 2.
C8_OneUpdateAtFirstMatch ==
    /\ Len(CallsOf("update_cell")) <= 1
    /\ ScanOver =>
        /\ (MatchingRows = {}) => CallsOf("update_cell") = <<>>
        /\ (MatchingRows # {}) =>
               /\ CallsOf("update_cell") = <<Call("update_cell", "E", FirstMatch + 1, latest_bl_number, 0)>>
               /\ Count(log, "container_not_found") = FirstMatch
               /\ Count(log, "sheet_updated") = 1
        /\ (sheet_data = ExampleSheet /\ container_number = Temu) =>
               /\ Len(CallsOf("update_cell")) = 1
               /\ CallsOf("update_cell")[1].row = 2

\* the first of two matching rows was updated, by substring, after a passed-over row 0
C8_Witness ==
    /\ ScanOver
    /\ Cardinality(MatchingRows) = 2
    /\ FirstMatch = 1
    /\ sheet_data[1] # HeaderRow
    /\ sheet_data[2][4] # container_number
    /\ Len(CallsOf("update_cell")) = 1
    /\ CallsOf("update_cell")[1].row = 2

\* C9: when no data row of the sheet read holds the container in column D
\* (empty and header-only sheets included), a warning is logged, no update is
\* issued, and the run creates the folder and uploads the collected documents.
C9_NoMatchWarned ==
    (ScanOver /\ pc = "done" /\ MatchingRows = {}) =>
        /\ Count(log, "container_not_found") >= 1
        /\ CallsOf("update_cell") = <<>>
        /\ Len(CallsOf("create_folder")) = 1
        /\ Len(CallsOf("upload")) = Len(all_files_to_upload)

\* C13: while the mail search has yielded no attachment, in each of the three
\* variants, the run has not failed, can only end by returning (it cannot go on
\* to the sheet or to the folder), and once it has ended it has logged that
\* there are no documents and has issued no folder creation, no upload, no
\* sheet read and no sheet update; no prompt was sent to the model either.
C13_NoAttachmentsNoCalls ==
    (yielded = <<>>) =>
        /\ pc \in {"loop", "done"}
        /\ pc = "loop" => (ENABLED NoDocuments /\ ~ENABLED LoopDone)
        /\ pc = "done" => log = <<"no_documents">>
        /\ calls = <<>>
        /\ model_calls = <<>>

\* the structured variant ended without an attachment yielded
C13_Witness ==
    /\ variant = "structured"
    /\ yielded = <<>>
    /\ pc = "done"
    /\ log = <<"no_documents">>
    /\ calls = <<>>

\* the places in calls of the calls of one operation
Places(op) == {n \in 1..Len(calls) : calls[n].op = op}

\* the n-th collected file is an attachment the mail search yielded, and it
\* was yielded after the files collected before it
CollectedInYieldOrder ==
    \A n \in 1..Len(all_files_to_upload) :
        /\ all_files_to_upload[n].filename \in 1..Len(yielded)
        /\ all_files_to_upload[n].file_data = yielded[all_files_to_upload[n].filename].file_data
        /\ \A m \in 1..(n - 1) :
               all_files_to_upload[m].filename < all_files_to_upload[n].filename

\* C15: in each of the three variants, a run that has uploaded anything has
\* created exactly one folder, named "Shipment Documents - " + the identifier
\* kept, before every upload; it has uploaded every collected file exactly
\* once, in the order the files were yielded, into that folder; and in the
\* structured variant the sheet read and any sheet update precede the folder
\* creation.
C15_FolderThenUploadsInOrder ==
    (CallsOf("upload") # <<>>) =>
        /\ latest_bl_number # None
        /\ CallsOf("create_folder") = <<create_drive_folder(FolderPrefix \o latest_bl_number)>>
        /\ \A f \in Places("create_folder"), u \in Places("upload") : f < u
        /\ \A c \in Places("update_cell") \cup Places("get_sheet") :
               \A f \in Places("create_folder") : c < f
        /\ Len(CallsOf("upload")) = Len(all_files_to_upload)
        /\ \A n \in 1..Len(all_files_to_upload) :
               /\ CallsOf("upload")[n].file = all_files_to_upload[n].filename
               /\ CallsOf("upload")[n].text = FolderId(CallsOf("create_folder")[1].text)
        /\ CollectedInYieldOrder
        /\ (variant # "structured") => Places("update_cell") \cup Places("get_sheet") = {}

\* a run of the structured variant updated the sheet, created the folder and
\* uploaded the first and the third attachment, the second having been skipped
C15_Witness ==
    /\ variant = "structured"
    /\ pc = "done"
    /\ Len(yielded) = 3
    /\ Places("update_cell") # {}
    /\ Len(CallsOf("upload")) = 2
    /\ CallsOf("upload")[1].file = 1
    /\ CallsOf("upload")[2].file = 3
    /\ Len(CallsOf("create_folder")) = 1

====
